---- MODULE Spec2Model ----
(***************************************************************************)
(* A model of the Hermes in-memory cache with its full-text index.        *)
(*                                                                         *)
(* The repository holds two generations of the cache's full-text          *)
(* initialisation (package hermes in src/api/handlers/search.go and        *)
(* package cache in src/cache/ft_init.go) and the FTS search engine        *)
(* (src/unnamed/part_000).  Spec models the two caches (variable impl      *)
(* tells which one a behaviour is about), SpecFTS the search functions,    *)
(* SpecLock the reader/writer lock protocol of the public operations and   *)
(* SpecInitCalls that protocol for the FT-init callers of both caches.     *)
(***************************************************************************)
EXTENDS Integers, Sequences, FiniteSets, TLC

VARIABLES
    impl,   \* "hermes" (search.go) or "cache" (ft_init.go): the package modelled
    data,   \* c.data: record key -> (field name -> value)
    ft,     \* c.ft: Nil or the FullText struct
    last,   \* history: the last public call, its outcome and the state before it
    fts,    \* the FTS search engine: its records, its word cache, its words
    res,    \* history: the last search on fts, its arguments and what it returned
    pc,     \* lock protocol: where each caller is in its public operation
    op,     \* lock protocol: the public operation each caller is in
    todo,   \* lock protocol: the words a SearchWithSpaces has still to search
    holds,  \* the mutex: the read locks each caller holds
    wHolder,\* the mutex: the caller that announced or holds the write lock
    ret     \* history: the return, if any, that the last step of the protocol made

cvars == <<impl, data, ft, last>>
fvars == <<fts, res>>
lvars == <<pc, op, todo, holds, wHolder, ret>>
vars == <<impl, data, ft, last, fts, res, pc, op, todo, holds, wHolder, ret>>

(***************************************************************************)
(* Bounds of the model.                                                    *)
(***************************************************************************)
MaxWordsBound == 2   \* maxSize / maxWords arguments range over -1 and 1..MaxWordsBound
MaxBytesBound == 12  \* the one finite maxBytes / maxSizeBytes argument tried

Keys == {"k1", "k2"}
Fields == {"name", "age"}

(***************************************************************************)
(* Values.  A text is a sequence of words; a value is a string (one text), *)
(* an integer, or a list of strings.                                       *)
(***************************************************************************)
Nil == [nil |-> TRUE]

StrVal(t) == [tag |-> "string", num |-> 0, strs |-> <<t>>]
IntVal(n) == [tag |-> "int", num |-> n, strs |-> <<>>]
ListVal(ts) == [tag |-> "list", num |-> 0, strs |-> ts]

RECURSIVE Concat(_)
Concat(ts) == IF ts = <<>> THEN <<>> ELSE Head(ts) \o Concat(Tail(ts))

\* The value extractor: the string of a value that is to be indexed, empty
\* when the value holds none (a number).
WFTGetValue(v) ==
    CASE v.tag = "string" -> v.strs[1]
      [] v.tag = "list"   -> Concat(v.strs)
      [] OTHER            -> <<>>

\* Case folding of the vocabulary.
ToLower(w) == IF w = "Red" THEN "red" ELSE w

\* The tokens of a text: its words, case folded, the short ones dropped.
RECURSIVE Tokenise(_, _)
Tokenise(text, minWordLength) ==
    IF text = <<>> THEN <<>>
    ELSE LET w == ToLower(Head(text))
             rest == Tokenise(Tail(text), minWordLength)
         IN IF Len(w) < minWordLength THEN rest ELSE <<w>> \o rest

R1 == [name |-> StrVal(<<"Red", "car">>), age |-> IntVal(17)]
R2 == [name |-> ListVal(<<(<<"red">>), (<<"bike">>)>>), age |-> IntVal(20)]
R3 == [name |-> StrVal(<<"red">>), age |-> StrVal(<<"bike">>)]
Records == {R1, R2, R3}

EmptyMap == [k \in {} |-> <<>>]

\* A map literal with one or two entries.
Map1(k, v) == [x \in {k} |-> v]
Map2(k1, v1, k2, v2) == [x \in {k1, k2} |-> IF x = k1 THEN v1 ELSE v2]

\* m with key k set to v (Go: m[k] = v).
Put(m, k, v) == [x \in DOMAIN m \cup {k} |-> IF x = k THEN v ELSE m[x]]

\* m without key k (Go: delete(m, k)).
Remove(m, k) == [x \in DOMAIN m \ {k} |-> m[x]]

(***************************************************************************)
(* Go ranges over a map in an unspecified order: an ingestion runs over    *)
(* some order of the records and, within each record, of its fields.       *)
(***************************************************************************)
Perms(S) ==
    {s \in [1..Cardinality(S) -> S] : \A i, j \in 1..Cardinality(S) : s[i] = s[j] => i = j}

RECURSIVE Flatten(_, _, _)
Flatten(d, kp, fp) ==
    IF kp = <<>> THEN <<>>
    ELSE [i \in 1..Len(fp[Head(kp)]) |-> <<Head(kp), fp[Head(kp)][i]>>]
         \o Flatten(d, Tail(kp), fp)

Orders(d) ==
    {Flatten(d, kp, fp) : kp \in Perms(DOMAIN d),
                          fp \in [DOMAIN d -> Perms(Fields)]}

(***************************************************************************)
(* The index under construction (the temp storage): token -> the keys of   *)
(* the records that contain it, in order of first occurrence.              *)
(***************************************************************************)
\* The bytes of the strings of a sequence.
RECURSIVE SeqBytes(_)
SeqBytes(s) == IF s = <<>> THEN 0 ELSE Len(Head(s)) + SeqBytes(Tail(s))

InSeq(s, x) == \E i \in 1..Len(s) : s[i] = x

RECURSIVE SetSum(_, _)
SetSum(S, f) ==
    IF S = {} THEN 0
    ELSE LET x == CHOOSE y \in S : TRUE IN f[x] + SetSum(S \ {x}, f)

\* The byte cost of an index: the bytes of its tokens and of its posting entries.
Bytes(m) ==
    SetSum(DOMAIN m, [t \in DOMAIN m |-> Len(t) + SeqBytes(m[t])])

OverCap(m, maxWords, maxBytes) ==
    \/ maxWords # -1 /\ Cardinality(DOMAIN m) > maxWords
    \/ maxBytes # -1 /\ Bytes(m) > maxBytes

\* One token of one record added to the index under construction.
AddToken(m, w, cacheKey) ==
    IF w \notin DOMAIN m THEN Put(m, w, <<cacheKey>>)
    ELSE IF InSeq(m[w], cacheKey) THEN m
    ELSE Put(m, w, Append(m[w], cacheKey))

RECURSIVE AddTokens(_, _, _)
AddTokens(m, ws, cacheKey) ==
    IF ws = <<>> THEN m ELSE AddTokens(AddToken(m, Head(ws), cacheKey), Tail(ws), cacheKey)

\* TempStorage.insert: the tokens of one field value added, or a cap error
\* that leaves the temp storage as it was.
TSInsert(m, maxWords, maxBytes, minWordLength, cacheKey, ftv) ==
    LET m2 == AddTokens(m, Tokenise(ftv, minWordLength), cacheKey)
    IN IF OverCap(m2, maxWords, maxBytes)
       THEN [err |-> "cap", ts |-> m]
       ELSE [err |-> "none", ts |-> m2]

\* cleanSingleArrays and updateFullText: the final shape of each posting.
Shaped(m) ==
    [t \in DOMAIN m |->
        [shape |-> IF Len(m[t]) = 1 THEN "Single" ELSE "Multi", keys |-> m[t]]]

\* The keys of every posting of a FullText storage.
Postings(storage) == [t \in DOMAIN storage |-> storage[t].keys]

\* removeKey: the key stripped from every posting, empty postings dropped.
StripKey(m, key) ==
    LET m2 == [t \in DOMAIN m |-> SelectSeq(m[t], LAMBDA x : x # key)]
    IN [t \in {u \in DOMAIN m2 : m2[u] # <<>>} |-> m2[t]]

(***************************************************************************)
(* Package hermes (src/api/handlers/search.go).                            *)
(***************************************************************************)
NewFullText(maxSize, maxBytes, minWordLength) ==
    [storage |-> EmptyMap, maxSize |-> maxSize, maxBytes |-> maxBytes,
     minWordLength |-> minWordLength]

\* FullText.insert(&data) over one iteration order.  The loop writes the
\* full-text value of every indexed field back into the map it was given
\* before it inserts it; an error returns with those writes made.
RECURSIVE insertLoop(_, _, _, _)
insertLoop(f, d, ts, order) ==
    IF order = <<>> THEN [err |-> "none", data |-> d, ts |-> ts]
    ELSE LET cacheKey == order[1][1]
             k == order[1][2]
             ftv == WFTGetValue(d[cacheKey][k])
         IN IF Len(ftv) = 0 THEN insertLoop(f, d, ts, Tail(order))
            ELSE LET d2 == [d EXCEPT ![cacheKey][k] = StrVal(ftv)]
                     r == TSInsert(ts, f.maxSize, f.maxBytes, f.minWordLength, cacheKey, ftv)
                 IN IF r.err # "none"
                    THEN [err |-> r.err, data |-> d2, ts |-> ts]
                    ELSE insertLoop(f, d2, r.ts, Tail(order))

insert_noCleanSingleArrays(f, d, order) ==
    LET r == insertLoop(f, d, EmptyMap, order)
    IN IF r.err # "none"
       THEN [err |-> r.err, data |-> r.data, ft |-> f]
       ELSE [err |-> "none", data |-> r.data,
             ft |-> [f EXCEPT !.storage =
                        [t \in DOMAIN r.ts |-> [shape |-> "Multi", keys |-> r.ts[t]]]]]

insert(f, d, order) ==
    LET r == insertLoop(f, d, EmptyMap, order)
    IN IF r.err # "none"
       THEN [err |-> r.err, data |-> r.data, ft |-> f]
       ELSE [err |-> "none", data |-> r.data,
             ft |-> [f EXCEPT !.storage = Shaped(r.ts)]]

\* The guard of FTInit, FTInitWithMap and FTInitWithJson.
AlreadyInitializedH_never(c) == FALSE

AlreadyInitializedH(c) == c.ft # Nil

\* Cache.ftInit: insert works on c.data itself.
ftInit_early(c, maxSize, maxBytes, minWordLength, order) ==
    LET r == insert(NewFullText(maxSize, maxBytes, minWordLength), c.data, order)
    IN [err |-> r.err, data |-> r.data, ft |-> r.ft]

ftInit_noLoad(c, maxSize, maxBytes, minWordLength, order) ==
    [err |-> "none", data |-> c.data, ft |-> NewFullText(maxSize, maxBytes, minWordLength)]

ftInit(c, maxSize, maxBytes, minWordLength, order) ==
    LET r == insert(NewFullText(maxSize, maxBytes, minWordLength), c.data, order)
    IN IF r.err # "none"
       THEN [err |-> r.err, data |-> r.data, ft |-> c.ft]
       ELSE [err |-> "none", data |-> r.data, ft |-> r.ft]

\* The first loop of ftInitWithMap: the records of the cache moved into the
\* incoming map, unless a key is in both.
Collides(c, d) == DOMAIN c.data \cap DOMAIN d # {}

Merged(c, d) == [k \in DOMAIN d \cup DOMAIN c.data |->
                    IF k \in DOMAIN c.data THEN c.data[k] ELSE d[k]]

ftInitWithMap_nodata(c, d, maxSize, maxBytes, minWordLength, order) ==
    IF Collides(c, d) THEN [err |-> "collision", data |-> c.data, ft |-> c.ft]
    ELSE LET r == insert(NewFullText(maxSize, maxBytes, minWordLength), Merged(c, d), order)
         IN IF r.err # "none"
            THEN [err |-> r.err,
                  data |-> [k \in DOMAIN c.data |-> r.data[k]],
                  ft |-> c.ft]
            ELSE [err |-> "none",
                  data |-> [k \in DOMAIN c.data |-> r.data[k]],
                  ft |-> r.ft]

\* Cache.ftInitWithMap.  The records of the cache are shared between c.data
\* and the merged map, so what insert writes into them shows in c.data
\* also when insert fails.
ftInitWithMap(c, d, maxSize, maxBytes, minWordLength, order) ==
    IF Collides(c, d) THEN [err |-> "collision", data |-> c.data, ft |-> c.ft]
    ELSE LET r == insert(NewFullText(maxSize, maxBytes, minWordLength), Merged(c, d), order)
         IN IF r.err # "none"
            THEN [err |-> r.err,
                  data |-> [k \in DOMAIN c.data |-> r.data[k]],
                  ft |-> c.ft]
            ELSE [err |-> "none", data |-> r.data, ft |-> r.ft]

(***************************************************************************)
(* Package cache (src/cache/ft_init.go).                                   *)
(***************************************************************************)
NewFullTextC(maxWords, maxSizeBytes) ==
    [wordCache |-> EmptyMap, maxWords |-> maxWords, maxSizeBytes |-> maxSizeBytes,
     isInitialized |-> FALSE, schema |-> {}]

\* FullText.loadCacheData over one iteration order: the fields of the schema
\* are indexed, the map is only read.  An error leaves what was loaded so far.
RECURSIVE loadLoop(_, _, _, _, _)
loadLoop(f, d, schema, ts, order) ==
    IF order = <<>> THEN [err |-> "none", ts |-> ts]
    ELSE LET itemKey == order[1][1]
             key == order[1][2]
             v == WFTGetValue(d[itemKey][key])
         IN IF key \notin schema \/ Len(v) = 0 THEN loadLoop(f, d, schema, ts, Tail(order))
            ELSE LET ts2 == AddTokens(ts, Tokenise(v, 1), itemKey)
                 IN IF OverCap(ts2, f.maxWords, f.maxSizeBytes)
                    THEN [err |-> "cap", ts |-> ts2]
                    ELSE loadLoop(f, d, schema, ts2, Tail(order))

loadCacheData(f, d, schema, order) ==
    LET r == loadLoop(f, d, schema, EmptyMap, order)
    IN [err |-> r.err, ft |-> [f EXCEPT !.wordCache = r.ts, !.schema = schema]]

\* FullText.clean: the partial state of a failed load cleared.
clean(f) == [f EXCEPT !.wordCache = EmptyMap, !.schema = {}]

\* The guard of InitFT, InitFTWithMap and InitFTWithJson.
AlreadyInitializedC_nil(c) == c.ft # Nil

AlreadyInitializedC_never(c) == FALSE

AlreadyInitializedC(c) == c.ft # Nil /\ c.ft.isInitialized

\* Cache.initFT: c.ft is replaced first, marked initialised last.
initFT_flag(c, maxWords, maxSizeBytes, schema, order) ==
    LET r == loadCacheData(NewFullTextC(maxWords, maxSizeBytes), c.data, schema, order)
    IN [err |-> r.err, data |-> c.data, ft |-> [r.ft EXCEPT !.isInitialized = TRUE]]

initFT_everyField(c, maxWords, maxSizeBytes, schema, order) ==
    LET r == loadCacheData(NewFullTextC(maxWords, maxSizeBytes), c.data, Fields, order)
    IN IF r.err # "none"
       THEN [err |-> r.err, data |-> c.data, ft |-> clean(r.ft)]
       ELSE [err |-> "none", data |-> c.data, ft |-> [r.ft EXCEPT !.isInitialized = TRUE]]

initFT(c, maxWords, maxSizeBytes, schema, order) ==
    LET r == loadCacheData(NewFullTextC(maxWords, maxSizeBytes), c.data, schema, order)
    IN IF r.err # "none"
       THEN [err |-> r.err, data |-> c.data, ft |-> clean(r.ft)]
       ELSE [err |-> "none", data |-> c.data, ft |-> [r.ft EXCEPT !.isInitialized = TRUE]]

\* Cache.initFTWithMap.
initFTWithMap(c, d, maxWords, maxSizeBytes, schema, order) ==
    IF Collides(c, d)
    THEN [err |-> "collision", data |-> c.data, ft |-> NewFullTextC(maxWords, maxSizeBytes)]
    ELSE LET r == loadCacheData(NewFullTextC(maxWords, maxSizeBytes), Merged(c, d), schema, order)
         IN IF r.err # "none"
            THEN [err |-> r.err, data |-> c.data, ft |-> clean(r.ft)]
            ELSE [err |-> "none", data |-> Merged(c, d),
                  ft |-> [r.ft EXCEPT !.isInitialized = TRUE]]

(***************************************************************************)
(* The snapshot reader.                                                    *)
(***************************************************************************)
Files == {"good.json", "bad.json"}

ReadJson(file) ==
    IF file = "good.json"
    THEN [err |-> "none", data |-> Map1("k2", R2)]
    ELSE [err |-> "io", data |-> EmptyMap]

\* Cache.ftInitWithJson (hermes) and Cache.initFTWithJson (cache).
ftInitWithJson_unchecked(c, file, maxSize, maxBytes, minWordLength, order) ==
    ftInitWithMap(c, ReadJson(file).data, maxSize, maxBytes, minWordLength, order)

ftInitWithJson(c, file, maxSize, maxBytes, minWordLength, order) ==
    LET j == ReadJson(file)
    IN IF j.err # "none" THEN [err |-> j.err, data |-> c.data, ft |-> c.ft]
       ELSE ftInitWithMap(c, j.data, maxSize, maxBytes, minWordLength, order)

initFTWithJson(c, file, maxWords, maxSizeBytes, schema, order) ==
    LET j == ReadJson(file)
    IN IF j.err # "none" THEN [err |-> j.err, data |-> c.data, ft |-> c.ft]
       ELSE initFTWithMap(c, j.data, maxWords, maxSizeBytes, schema, order)

(***************************************************************************)
(* The two caches seen alike.                                              *)
(***************************************************************************)
Initialised(i, f) == IF i = "hermes" THEN f # Nil ELSE f # Nil /\ f.isInitialized

\* The index: token -> keys; empty while the full text is uninitialised.
Index(i, f) ==
    IF ~Initialised(i, f) THEN EmptyMap
    ELSE IF i = "hermes" THEN Postings(f.storage) ELSE f.wordCache

WithIndex(i, f, m) ==
    IF i = "hermes" THEN [f EXCEPT !.storage = Shaped(m)] ELSE [f EXCEPT !.wordCache = m]

\* What an uninitialised cache retains of an index.
Retained(i, f) ==
    IF f = Nil THEN EmptyMap
    ELSE IF i = "hermes" THEN Postings(f.storage) ELSE f.wordCache

\* The tokens of the indexed fields of one record.
RECURSIVE RecordTokens(_, _, _, _)
RecordTokens(i, f, rec, fs) ==
    IF fs = <<>> THEN <<>>
    ELSE LET k == Head(fs)
             mine == IF i = "hermes"
                     THEN Tokenise(WFTGetValue(rec[k]), f.minWordLength)
                     ELSE IF k \in f.schema THEN Tokenise(WFTGetValue(rec[k]), 1) ELSE <<>>
         IN mine \o RecordTokens(i, f, rec, Tail(fs))

MaxWordsOf(i, f) == IF i = "hermes" THEN f.maxSize ELSE f.maxWords
MaxBytesOf(i, f) == IF i = "hermes" THEN f.maxBytes ELSE f.maxSizeBytes

\* Cache.Set: the record replaced and, with the full text initialised,
\* re-indexed; a cap error changes nothing.
set(i, c, key, rec) ==
    IF ~Initialised(i, c.ft) THEN [err |-> "none", data |-> Put(c.data, key, rec), ft |-> c.ft]
    ELSE LET fs == CHOOSE p \in Perms(DOMAIN rec) : TRUE
             m == AddTokens(StripKey(Index(i, c.ft), key),
                            RecordTokens(i, c.ft, rec, fs), key)
         IN IF OverCap(m, MaxWordsOf(i, c.ft), MaxBytesOf(i, c.ft))
            THEN [err |-> "cap", data |-> c.data, ft |-> c.ft]
            ELSE [err |-> "none", data |-> Put(c.data, key, rec),
                  ft |-> WithIndex(i, c.ft, m)]

\* Cache.Delete: the record removed and its key stripped from every posting.
StripOne(m, key) ==
    LET with == {t \in DOMAIN m : InSeq(m[t], key)}
    IN IF with = {} THEN m
       ELSE LET t == CHOOSE u \in with : TRUE
            IN StripKey([u \in {t} |-> m[t]], key) @@ [u \in DOMAIN m \ {t} |-> m[u]]

delete_onePosting(i, c, key) ==
    [err |-> "none", data |-> Remove(c.data, key),
     ft |-> IF Initialised(i, c.ft)
            THEN WithIndex(i, c.ft, StripOne(Index(i, c.ft), key))
            ELSE c.ft]

delete(i, c, key) ==
    IF key \notin DOMAIN c.data THEN [err |-> "none", data |-> c.data, ft |-> c.ft]
    ELSE [err |-> "none", data |-> Remove(c.data, key),
          ft |-> IF Initialised(i, c.ft)
                 THEN WithIndex(i, c.ft, StripKey(Index(i, c.ft), key))
                 ELSE c.ft]

(***************************************************************************)
(* The public operations.  Each holds the exclusive lock from its first    *)
(* statement to its return, so each is one step.                           *)
(***************************************************************************)
WordCaps == {-1} \cup (1..MaxWordsBound)
ByteCaps == {-1, MaxBytesBound}
MinWordLengths == {1, 4}
Schemas == {{"name"}, {"name", "age"}}
Maps == {Map1("k1", R1), Map1("k2", R2), Map2("k1", R3, "k2", R1)}

Cache == [data |-> data, ft |-> ft]

\* The history before the first call.
\* The arguments of a call other than its records: the key of Set and
\* Delete, the file and the schema of an initialisation, and whether both
\* its caps are -1.
NoKey == ""
NoFile == ""
CallArgs(key, file, maxWords, maxBytes, schema) ==
    [key |-> key, file |-> file, uncapped |-> maxWords = -1 /\ maxBytes = -1,
     schema |-> schema]

NoCall == [op |-> "none", err |-> "none", data0 |-> EmptyMap, ft0 |-> Nil,
           arg |-> EmptyMap, call |-> CallArgs(NoKey, NoFile, -1, -1, {})]

Returns(opName, r, arg, call) ==
    /\ data' = r.data
    /\ ft' = r.ft
    /\ last' = [op |-> opName, err |-> r.err, data0 |-> data, ft0 |-> ft, arg |-> arg,
                call |-> call]
    /\ UNCHANGED <<impl, fvars, lvars>>

AlreadyErr == [err |-> "already", data |-> data, ft |-> ft]

Set(key, rec) ==
    /\ key \in Keys
    /\ Returns("Set", set(impl, Cache, key, rec), Map1(key, rec),
               CallArgs(key, NoFile, -1, -1, {}))

Delete(key) ==
    /\ key \in Keys
    /\ Returns("Delete", delete(impl, Cache, key), EmptyMap,
               CallArgs(key, NoFile, -1, -1, {}))

FTInit(maxSize, maxBytes, minWordLength) ==
    /\ impl = "hermes"
    /\ IF AlreadyInitializedH(Cache)
       THEN Returns("FTInit", AlreadyErr, EmptyMap,
                    CallArgs(NoKey, NoFile, maxSize, maxBytes, Fields))
       ELSE \E order \in Orders(data) :
               Returns("FTInit", ftInit(Cache, maxSize, maxBytes, minWordLength, order),
                       EmptyMap, CallArgs(NoKey, NoFile, maxSize, maxBytes, Fields))

FTInitWithMap(d, maxSize, maxBytes, minWordLength) ==
    /\ impl = "hermes"
    /\ IF AlreadyInitializedH(Cache)
       THEN Returns("FTInitWithMap", AlreadyErr, d,
                    CallArgs(NoKey, NoFile, maxSize, maxBytes, Fields))
       ELSE \E order \in Orders(Merged(Cache, d)) :
               Returns("FTInitWithMap",
                       ftInitWithMap(Cache, d, maxSize, maxBytes, minWordLength, order), d,
                       CallArgs(NoKey, NoFile, maxSize, maxBytes, Fields))

FTInitWithJson(file, maxSize, maxBytes, minWordLength) ==
    /\ impl = "hermes"
    /\ IF AlreadyInitializedH(Cache)
       THEN Returns("FTInitWithJson", AlreadyErr, ReadJson(file).data,
                    CallArgs(NoKey, file, maxSize, maxBytes, Fields))
       ELSE \E order \in Orders(Merged(Cache, ReadJson(file).data)) :
               Returns("FTInitWithJson",
                       ftInitWithJson(Cache, file, maxSize, maxBytes, minWordLength, order),
                       ReadJson(file).data, CallArgs(NoKey, file, maxSize, maxBytes, Fields))

InitFT(maxWords, maxSizeBytes, schema) ==
    /\ impl = "cache"
    /\ IF AlreadyInitializedC(Cache)
       THEN Returns("FTInit", AlreadyErr, EmptyMap,
                    CallArgs(NoKey, NoFile, maxWords, maxSizeBytes, schema))
       ELSE \E order \in Orders(data) :
               Returns("FTInit", initFT(Cache, maxWords, maxSizeBytes, schema, order),
                       EmptyMap, CallArgs(NoKey, NoFile, maxWords, maxSizeBytes, schema))

InitFTWithMap(d, maxWords, maxSizeBytes, schema) ==
    /\ impl = "cache"
    /\ IF AlreadyInitializedC(Cache)
       THEN Returns("FTInitWithMap", AlreadyErr, d,
                    CallArgs(NoKey, NoFile, maxWords, maxSizeBytes, schema))
       ELSE \E order \in Orders(Merged(Cache, d)) :
               Returns("FTInitWithMap",
                       initFTWithMap(Cache, d, maxWords, maxSizeBytes, schema, order), d,
                       CallArgs(NoKey, NoFile, maxWords, maxSizeBytes, schema))

InitFTWithJson(file, maxWords, maxSizeBytes, schema) ==
    /\ impl = "cache"
    /\ IF AlreadyInitializedC(Cache)
       THEN Returns("FTInitWithJson", AlreadyErr, ReadJson(file).data,
                    CallArgs(NoKey, file, maxWords, maxSizeBytes, schema))
       ELSE \E order \in Orders(Merged(Cache, ReadJson(file).data)) :
               Returns("FTInitWithJson",
                       initFTWithJson(Cache, file, maxWords, maxSizeBytes, schema, order),
                       ReadJson(file).data, CallArgs(NoKey, file, maxWords, maxSizeBytes, schema))

Next ==
    \/ \E key \in Keys, rec \in Records : Set(key, rec)
    \/ \E key \in Keys : Delete(key)
    \/ \E maxSize \in WordCaps, maxBytes \in ByteCaps, minWordLength \in MinWordLengths :
          \/ FTInit(maxSize, maxBytes, minWordLength)
          \/ \E d \in Maps : FTInitWithMap(d, maxSize, maxBytes, minWordLength)
          \/ \E file \in Files : FTInitWithJson(file, maxSize, maxBytes, minWordLength)
    \/ \E maxWords \in WordCaps, maxSizeBytes \in ByteCaps, schema \in Schemas :
          \/ InitFT(maxWords, maxSizeBytes, schema)
          \/ \E d \in Maps : InitFTWithMap(d, maxWords, maxSizeBytes, schema)
          \/ \E file \in Files : InitFTWithJson(file, maxWords, maxSizeBytes, schema)

(***************************************************************************)
(* The FTS search engine (src/unnamed/part_000).  A word is a sequence of  *)
(* characters; a record maps the field name to a text, a sequence of       *)
(* words.  fts.json holds the records, fts.cache maps a word to the        *)
(* (0-based) indices of the records that contain it, fts.keys lists the    *)
(* words in insertion order.                                               *)
(***************************************************************************)
MaxJson == 2    \* the corpora hold 1..MaxJson records
MaxLimit == 2   \* limit ranges over -1..MaxLimit

W_red == <<"r", "e", "d">>
W_re == <<"r", "e">>
W_car == <<"c", "a", "r">>
W_x == <<"x">>
W_Red == <<"R", "e", "d">>

J1 == [name |-> <<W_red, W_car>>]
J2 == [name |-> <<W_red>>]
J3 == [name |-> <<W_re, W_car>>]
J4 == [name |-> <<W_red>>, bio |-> <<W_Red, W_car>>]
Corpora == UNION {[1..n -> {J1, J2, J3, J4}] : n \in 1..MaxJson}
Queries == {<<>>, W_red, W_re, W_car, W_x}
Limits == -1..MaxLimit
JsonFields == {"name", "bio"}

\* The word cache of a corpus: each word of each record, in order.
RECURSIVE LoadWords(_, _, _)
LoadWords(f, i, ws) ==
    IF ws = <<>> THEN f
    ELSE LET word == Head(ws)
             g == IF word \notin DOMAIN f.cache
                  THEN [f EXCEPT !.cache = Put(f.cache, word, <<i>>),
                                 !.keys = Append(f.keys, word)]
                  ELSE IF InSeq(f.cache[word], i) THEN f
                  ELSE [f EXCEPT !.cache = Put(f.cache, word, Append(f.cache[word], i))]
         IN LoadWords(g, i, Tail(ws))

\* The words of the fields of record i, the fields taken in the order fo.
RECURSIVE LoadFields(_, _, _)
LoadFields(f, i, fo) ==
    IF fo = <<>> THEN f
    ELSE IF Head(fo) \notin DOMAIN f.json[i + 1] THEN LoadFields(f, i, Tail(fo))
    ELSE LoadFields(LoadWords(f, i, f.json[i + 1][Head(fo)]), i, Tail(fo))

RECURSIVE LoadJson(_, _, _)
LoadJson(f, i, fo) ==
    IF i >= Len(f.json) THEN f
    ELSE LoadJson(LoadFields(f, i, fo), i + 1, fo)

NewFTSOrd(json, fo) == LoadJson([json |-> json, cache |-> EmptyMap, keys |-> <<>>], 0, fo)

NewFTS(json) == NewFTSOrd(json, <<"name", "bio">>)

\* _Contains(s, sub): sub is a substring of s.
_Contains(s, sub) ==
    \E i \in 0..(Len(s) - Len(sub)) : SubSeq(s, i + 1, i + Len(sub)) = sub

Zeros(n) == [i \in 1..n |-> 0]

\* The inner loop of _Search: the records of one posting appended, those
\* already marked seen skipped.
RECURSIVE SearchPosting(_, _, _, _, _)
SearchPosting(f, posting, j, result, indices) ==
    IF j > Len(posting) THEN [result |-> result, indices |-> indices]
    ELSE LET index == posting[j]
         IN IF indices[index + 1] = -1
            THEN SearchPosting(f, posting, j + 1, result, indices)
            ELSE SearchPosting(f, posting, j + 1, Append(result, f.json[index + 1]),
                               [indices EXCEPT ![index + 1] = -1])

\* The outer loop of _Search over fts.keys.
RECURSIVE SearchKeys(_, _, _, _, _, _)
SearchKeys(f, query, limit, i, result, indices) ==
    IF i > Len(f.keys) THEN [result |-> result, indices |-> indices]
    ELSE IF Len(result) >= limit THEN [result |-> result, indices |-> indices]
    ELSE IF ~_Contains(f.keys[i], query)
         THEN SearchKeys(f, query, limit, i + 1, result, indices)
    ELSE LET r == SearchPosting(f, f.cache[f.keys[i]], 1, result, indices)
         IN SearchKeys(f, query, limit, i + 1, r.result, r.indices)

\* FTS._Search.
_Search(f, query, limit, strict) ==
    IF Len(query) = 0 THEN [result |-> <<>>, indices |-> <<>>]
    ELSE IF strict
    THEN IF query \notin DOMAIN f.cache
         THEN [result |-> <<>>, indices |-> Zeros(Len(f.json))]
         ELSE [result |-> [i \in 1..Len(f.cache[query]) |-> f.json[f.cache[query][i] + 1]],
               indices |-> f.cache[query]]
    ELSE SearchKeys(f, query, limit, 1, <<>>, Zeros(Len(f.json)))

NoSearch == [op |-> "none", query |-> <<>>, limit |-> 0, strict |-> FALSE,
             keys |-> {}, result |-> <<>>, indices |-> <<>>]

\* FTS.Search: _Search under the read lock.
Search(query, limit, strict) ==
    /\ LET r == _Search(fts, query, limit, strict)
       IN res' = [op |-> "Search", query |-> query, limit |-> limit, strict |-> strict,
                  keys |-> {}, result |-> r.result, indices |-> r.indices]
    /\ UNCHANGED <<fts, cvars, lvars>>

(***************************************************************************)
(* Queries of several words and the searches of the stored values.  A      *)
(* stored value is the string of its text: its words joined by spaces.     *)
(***************************************************************************)
SP == " "

RECURSIVE Join(_)
Join(text) ==
    IF text = <<>> THEN <<>>
    ELSE IF Len(text) = 1 THEN text[1]
    ELSE text[1] \o <<SP>> \o Join(Tail(text))

\* strings.TrimSpace
RECURSIVE TrimSpace(_)
TrimSpace(s) ==
    IF s = <<>> THEN s
    ELSE IF Head(s) = SP THEN TrimSpace(Tail(s))
    ELSE IF s[Len(s)] = SP THEN TrimSpace(SubSeq(s, 1, Len(s) - 1))
    ELSE s

\* strings.Split(s, " "): the pieces of s between its spaces, at least one.
RECURSIVE Split(_, _)
Split(s, piece) ==
    IF s = <<>> THEN <<piece>>
    ELSE IF Head(s) = SP THEN <<piece>> \o Split(Tail(s), <<>>)
    ELSE Split(Tail(s), Append(piece, Head(s)))

LowerChar(c) == IF c = "R" THEN "r" ELSE c

LowerStr(s) == [i \in 1..Len(s) |-> LowerChar(s[i])]

\* _ContainsIgnoreCase(s, sub)
_ContainsIgnoreCase(s, sub) == _Contains(LowerStr(s), LowerStr(sub))

\* record appended once for each of its n matching fields
Repeat(record, n) == [i \in 1..n |-> record]

\* The fields of a record that range reaches past "case !keys[key]" and
\* whose value contains the query.
MatchingFields(record, keys, query) ==
    {key \in DOMAIN record : key \in keys /\ _Contains(Join(record[key]), query)}

MatchingFieldsIgnoreCase(record, keys, query) ==
    {key \in DOMAIN record :
        key \in keys /\ _ContainsIgnoreCase(Join(record[key]), query)}

\* The loop of _SearchWithSpaces over the records one word found.
RECURSIVE SpacesResult(_, _, _, _, _)
SpacesResult(queryResult, j, keys, query, result) ==
    IF j > Len(queryResult) THEN result
    ELSE SpacesResult(queryResult, j + 1, keys, query,
            result \o Repeat(queryResult[j],
                             Cardinality(MatchingFields(queryResult[j], keys, query))))

\* The loop of _SearchWithSpaces over the words: each word goes through
\* fts.Search.
RECURSIVE SpacesWords(_, _, _, _, _, _, _, _)
SpacesWords(f, words, i, query, limit, strict, keys, result) ==
    IF i > Len(words) THEN result
    ELSE LET queryResult == _Search(f, words[i], limit, strict).result
         IN SpacesWords(f, words, i + 1, query, limit, strict, keys,
                        SpacesResult(queryResult, 1, keys, query, result))

\* FTS._SearchWithSpaces.
_SearchWithSpaces(f, query, limit, strict, keys) ==
    LET words == Split(TrimSpace(query), <<>>)
    IN IF Len(words) = 0 THEN [result |-> <<>>, indices |-> <<>>]
       ELSE IF Len(words) = 1 THEN _Search(f, words[1], limit, strict)
       ELSE [result |-> SpacesWords(f, words, 1, query, limit, strict, keys, <<>>),
             indices |-> <<>>]

\* FTS._SearchInJson: every record, once for each matching field; limit is
\* not read.
RECURSIVE _SearchInJsonFrom(_, _, _, _, _)
_SearchInJsonFrom(f, i, query, keys, result) ==
    IF i >= Len(f.json) THEN result
    ELSE _SearchInJsonFrom(f, i + 1, query, keys,
            result \o Repeat(f.json[i + 1],
                             Cardinality(MatchingFieldsIgnoreCase(f.json[i + 1], keys, query))))

_SearchInJson(f, query, limit, keys) == _SearchInJsonFrom(f, 0, query, keys, <<>>)

\* FTS._SearchInJsonWithKey: the records whose field key contains the query;
\* a record without the field has the empty string there.
RECURSIVE _SearchInJsonWithKeyFrom(_, _, _, _, _)
_SearchInJsonWithKeyFrom(f, i, query, key, result) ==
    IF i >= Len(f.json) THEN result
    ELSE LET value == IF key \in DOMAIN f.json[i + 1] THEN Join(f.json[i + 1][key]) ELSE <<>>
         IN _SearchInJsonWithKeyFrom(f, i + 1, query, key,
                IF _ContainsIgnoreCase(value, query)
                THEN Append(result, f.json[i + 1]) ELSE result)

_SearchInJsonWithKey(f, query, key, limit) == _SearchInJsonWithKeyFrom(f, 0, query, key, <<>>)

Q_red_car == W_red \o <<SP>> \o W_car
Q_car_red == W_car \o <<SP>> \o W_red
Q_re_car == <<SP>> \o W_re \o <<SP>> \o W_car
SpaceQueries == {Q_red_car, Q_car_red, Q_re_car, W_red, <<>>}
ValueQueries == {W_Red, W_re, Q_red_car, W_x}
KeySets == {{}, {"name"}, {"name", "bio"}}

\* FTS.SearchWithSpaces.
SearchWithSpaces(query, limit, strict, keys) ==
    /\ LET r == _SearchWithSpaces(fts, query, limit, strict, keys)
       IN res' = [op |-> "SearchWithSpaces", query |-> query, limit |-> limit,
                  strict |-> strict, keys |-> keys,
                  result |-> r.result, indices |-> r.indices]
    /\ UNCHANGED <<fts, cvars, lvars>>

\* FTS.SearchInJson.
SearchInJson(query, limit, keys) ==
    /\ res' = [op |-> "SearchInJson", query |-> query, limit |-> limit,
               strict |-> FALSE, keys |-> keys,
               result |-> _SearchInJson(fts, query, limit, keys), indices |-> <<>>]
    /\ UNCHANGED <<fts, cvars, lvars>>

\* FTS.SearchInJsonWithKey.
SearchInJsonWithKey(query, key, limit) ==
    /\ res' = [op |-> "SearchInJsonWithKey", query |-> query, limit |-> limit,
               strict |-> FALSE, keys |-> {key},
               result |-> _SearchInJsonWithKey(fts, query, key, limit), indices |-> <<>>]
    /\ UNCHANGED <<fts, cvars, lvars>>

(***************************************************************************)
(* The lock protocol.  Every public operation takes the cache's            *)
(* sync.RWMutex first and releases it (defer) when it returns: searches    *)
(* RLock, mutations Lock.  Lock announces the writer (from then on RLock   *)
(* blocks) and then waits until the readers inside have left.              *)
(* _SearchWithSpaces searches each word through the public Search.         *)
(***************************************************************************)
NumProcs == 3        \* concurrent callers
MaxQueryWords == 2   \* words of a SearchWithSpaces query

Procs == 1..NumProcs
ReaderOps == {"Search", "SearchWithSpaces", "SearchInJson", "SearchInJsonWithKey"}
WriterOps == {"FTInit", "FTInitWithMap", "FTInitWithJson", "Set", "Delete"}

\* mutex.RLock() returns once no writer has announced itself or holds the lock.
CanRLock_always(p) == TRUE

CanRLock_exclusive(p) == wHolder = 0 /\ \A q \in Procs : holds[q] = 0

CanRLock(p) == wHolder = 0

\* mutex.Lock() first excludes the other writers ...
CanLockBegin_always(p) == TRUE

CanLockBegin(p) == wHolder = 0

\* ... and returns once no reader is inside.
CanLockAcquire(p) == wHolder = p /\ \A q \in Procs : holds[q] = 0

\* The caller, the operation and the exit path of a return.
\* was: whether the FT was initialised when the operation returned.
NoReturn == [p |-> 0, op |-> "none", err |-> "none", was |-> FALSE]

InitOps == {"FTInit", "FTInitWithMap", "FTInitWithJson"}

Call(p, o, n) ==
    /\ pc[p] = "idle"
    /\ op' = [op EXCEPT ![p] = o]
    /\ todo' = [todo EXCEPT ![p] = IF o = "SearchWithSpaces" THEN n ELSE 0]
    /\ pc' = [pc EXCEPT ![p] = IF o \in ReaderOps THEN "rlock" ELSE "lock"]
    /\ ret' = NoReturn
    /\ UNCHANGED <<holds, wHolder, cvars, fvars>>

\* The RLock of a public search.
RLock(p) ==
    /\ pc[p] = "rlock"
    /\ CanRLock(p)
    /\ holds' = [holds EXCEPT ![p] = @ + 1]
    /\ pc' = [pc EXCEPT ![p] = "read"]
    /\ ret' = NoReturn
    /\ UNCHANGED <<op, todo, wHolder, cvars, fvars>>

\* _SearchWithSpaces calls fts.Search for its next word.
InnerCall(p) ==
    /\ pc[p] = "read"
    /\ todo[p] > 0
    /\ pc' = [pc EXCEPT ![p] = "inner_rlock"]
    /\ ret' = NoReturn
    /\ UNCHANGED <<op, todo, holds, wHolder, cvars, fvars>>

\* The RLock of that Search, taken while the caller holds its own.
InnerRLock(p) ==
    /\ pc[p] = "inner_rlock"
    /\ CanRLock(p)
    /\ holds' = [holds EXCEPT ![p] = @ + 1]
    /\ pc' = [pc EXCEPT ![p] = "inner_read"]
    /\ ret' = NoReturn
    /\ UNCHANGED <<op, todo, wHolder, cvars, fvars>>

\* That Search returns: its deferred RUnlock.
InnerReturn(p) ==
    /\ pc[p] = "inner_read"
    /\ holds' = [holds EXCEPT ![p] = @ - 1]
    /\ todo' = [todo EXCEPT ![p] = @ - 1]
    /\ pc' = [pc EXCEPT ![p] = "read"]
    /\ ret' = NoReturn
    /\ UNCHANGED <<op, wHolder, cvars, fvars>>

\* A public search returns: its deferred RUnlock.
ReadReturn(p) ==
    /\ pc[p] = "read"
    /\ todo[p] = 0
    /\ holds' = [holds EXCEPT ![p] = @ - 1]
    /\ pc' = [pc EXCEPT ![p] = "idle"]
    /\ op' = [op EXCEPT ![p] = "none"]
    /\ ret' = [p |-> p, op |-> op[p], err |-> "none", was |-> Initialised(impl, ft)]
    /\ UNCHANGED <<todo, wHolder, cvars, fvars>>

\* The Lock of a mutation, in its two parts.
LockBegin(p) ==
    /\ pc[p] = "lock"
    /\ CanLockBegin(p)
    /\ wHolder' = p
    /\ pc' = [pc EXCEPT ![p] = "lock_wait"]
    /\ ret' = NoReturn
    /\ UNCHANGED <<op, todo, holds, cvars, fvars>>

LockAcquire(p) ==
    /\ pc[p] = "lock_wait"
    /\ CanLockAcquire(p)
    /\ pc' = [pc EXCEPT ![p] = "write"]
    /\ ret' = NoReturn
    /\ UNCHANGED <<op, todo, holds, wHolder, cvars, fvars>>

\* The exit paths of a mutation: its result and the errors it can return.
Exits(o) ==
    CASE o = "FTInit" -> {"none", "already", "cap"}
      [] o = "FTInitWithMap" -> {"none", "already", "collision", "cap"}
      [] o = "FTInitWithJson" -> {"none", "already", "io", "collision", "cap"}
      [] o = "Set" -> {"none", "cap"}
      [] OTHER -> {"none"}

\* The guard of an FT-init variant, first statement under the lock: an
\* uninitialised FT lets the call on, to the read of the file or to the load.
GuardPasses ==
    ~(IF impl = "hermes" THEN AlreadyInitializedH(Cache) ELSE AlreadyInitializedC(Cache))

Guard(p) ==
    /\ pc[p] = "write"
    /\ op[p] \in InitOps
    /\ GuardPasses
    /\ pc' = [pc EXCEPT ![p] = IF op[p] = "FTInitWithJson" THEN "readjson" ELSE "load"]
    /\ ret' = NoReturn
    /\ UNCHANGED <<op, todo, holds, wHolder, cvars, fvars>>

\* ftInitWithJson: utils.ReadJson has read the file, ftInitWithMap is next.
ReadFile(p) ==
    /\ pc[p] = "readjson"
    /\ pc' = [pc EXCEPT ![p] = "load"]
    /\ ret' = NoReturn
    /\ UNCHANGED <<op, todo, holds, wHolder, cvars, fvars>>

\* The exit paths open to a mutation where it is.
ExitsAt(p) ==
    CASE pc[p] = "write" /\ op[p] \in InitOps -> IF GuardPasses THEN {} ELSE {"already"}
      [] pc[p] = "write" /\ op[p] \notin InitOps -> Exits(op[p])
      [] pc[p] = "readjson" -> {"io"}
      [] OTHER -> Exits(op[p]) \ {"already", "io"}

\* The FT a mutation leaves by exit path e; the records are not part of
\* the protocol, the index of a successful initialisation is the empty one.
Left(p, e) ==
    IF pc[p] # "load" THEN ft
    ELSE IF impl = "hermes"
    THEN IF e = "none" THEN NewFullText(-1, -1, 1) ELSE ft
    ELSE IF e = "none" THEN [NewFullTextC(-1, -1) EXCEPT !.isInitialized = TRUE]
    ELSE IF e = "collision" THEN NewFullTextC(-1, -1)
    ELSE clean(NewFullTextC(-1, -1))

\* A mutation returns by one of its exit paths: its deferred Unlock.
WriteReturn_errorKeepsLock(p) ==
    /\ pc[p] \in {"write", "readjson", "load"}
    /\ \E e \in ExitsAt(p) :
          /\ ret' = [p |-> p, op |-> op[p], err |-> e, was |-> Initialised(impl, ft)]
          /\ ft' = Left(p, e)
          /\ wHolder' = IF e = "none" THEN 0 ELSE wHolder
    /\ pc' = [pc EXCEPT ![p] = "idle"]
    /\ op' = [op EXCEPT ![p] = "none"]
    /\ UNCHANGED <<todo, holds, impl, data, last, fvars>>

WriteReturn(p) ==
    /\ pc[p] \in {"write", "readjson", "load"}
    /\ \E e \in ExitsAt(p) :
          /\ ret' = [p |-> p, op |-> op[p], err |-> e, was |-> Initialised(impl, ft)]
          /\ ft' = Left(p, e)
    /\ wHolder' = 0
    /\ pc' = [pc EXCEPT ![p] = "idle"]
    /\ op' = [op EXCEPT ![p] = "none"]
    /\ UNCHANGED <<todo, holds, impl, data, last, fvars>>

InitLock ==
    /\ impl = "hermes"
    /\ data = EmptyMap
    /\ ft = Nil
    /\ last = NoCall
    /\ fts = NewFTS(<<>>)
    /\ res = NoSearch
    /\ pc = [p \in Procs |-> "idle"]
    /\ op = [p \in Procs |-> "none"]
    /\ todo = [p \in Procs |-> 0]
    /\ holds = [p \in Procs |-> 0]
    /\ wHolder = 0
    /\ ret = NoReturn

NextLock ==
    \E p \in Procs :
        \/ \E o \in ReaderOps \cup WriterOps :
              \E n \in IF o = "SearchWithSpaces" THEN 1..MaxQueryWords ELSE {1} :
                 Call(p, o, n)
        \/ RLock(p)
        \/ InnerCall(p)
        \/ InnerRLock(p)
        \/ InnerReturn(p)
        \/ ReadReturn(p)
        \/ LockBegin(p)
        \/ LockAcquire(p)
        \/ Guard(p)
        \/ ReadFile(p)
        \/ WriteReturn(p)

SpecLock == InitLock /\ [][NextLock]_vars

\* The callers of the FT-init variants alone, on the cache of either
\* generation.
InitCalls ==
    /\ impl \in {"hermes", "cache"}
    /\ data = EmptyMap
    /\ ft = Nil
    /\ last = NoCall
    /\ fts = NewFTS(<<>>)
    /\ res = NoSearch
    /\ pc = [p \in Procs |-> "idle"]
    /\ op = [p \in Procs |-> "none"]
    /\ todo = [p \in Procs |-> 0]
    /\ holds = [p \in Procs |-> 0]
    /\ wHolder = 0
    /\ ret = NoReturn

NextInitCalls ==
    \E p \in Procs :
        \/ \E o \in InitOps : Call(p, o, 1)
        \/ LockBegin(p)
        \/ LockAcquire(p)
        \/ Guard(p)
        \/ ReadFile(p)
        \/ WriteReturn(p)

SpecInitCalls == InitCalls /\ [][NextInitCalls]_vars

(***************************************************************************)
(* The specifications of the caches and of the search engine.              *)
(***************************************************************************)
\* The caches: InitCache of either package, then any public operation.
Init ==
    /\ impl \in {"hermes", "cache"}
    /\ data = EmptyMap
    /\ ft = Nil
    /\ last = NoCall
    /\ fts = NewFTS(<<>>)
    /\ res = NoSearch
    /\ pc = <<>>
    /\ op = <<>>
    /\ todo = <<>>
    /\ holds = <<>>
    /\ wHolder = 0
    /\ ret = NoReturn

Spec == Init /\ [][Next]_vars

\* The search engine over every corpus of the bounds.
InitSearch ==
    /\ impl = "hermes"
    /\ data = EmptyMap
    /\ ft = Nil
    /\ last = NoCall
    /\ fts \in {NewFTSOrd(json, fo) : json \in Corpora, fo \in Perms(JsonFields)}
    /\ res = NoSearch
    /\ pc = <<>>
    /\ op = <<>>
    /\ todo = <<>>
    /\ holds = <<>>
    /\ wHolder = 0
    /\ ret = NoReturn

NextSearch ==
    \/ \E query \in Queries, limit \in Limits, strict \in BOOLEAN :
          Search(query, limit, strict)
    \/ \E query \in SpaceQueries, limit \in Limits, strict \in BOOLEAN, keys \in KeySets :
          SearchWithSpaces(query, limit, strict, keys)
    \/ \E query \in ValueQueries, limit \in Limits, keys \in KeySets :
          SearchInJson(query, limit, keys)
    \/ \E query \in ValueQueries, limit \in Limits, key \in JsonFields :
          SearchInJsonWithKey(query, key, limit)

SpecFTS == InitSearch /\ [][NextSearch]_vars

(***************************************************************************)
(* Properties of the FT lifecycle.                                         *)
(***************************************************************************)
\* Whether the guard of the FT-init variants rejects a call on cache c.
GuardRejects(i, c) == IF i = "hermes" THEN AlreadyInitializedH(c) ELSE AlreadyInitializedC(c)

\* C1: an FT-init variant called on a cache whose full text is already
\* initialised returns an error and leaves the Store and the Index exactly
\* as they were.
C1_AlreadyInitialisedRejected ==
    (last.op \in InitOps /\ Initialised(impl, last.ft0)) =>
        /\ last.err # "none"
        /\ data = last.data0
        /\ ft = last.ft0

C1_Witness ==
    /\ last.op = "FTInitWithJson"
    /\ Initialised(impl, last.ft0)
    /\ last.err = "already"
    /\ Index(impl, ft) # EmptyMap

\* C2: after an operation has failed because maxWords or maxBytes would be
\* exceeded, the Store (every field value of every record) and the Index are
\* what they were before the call.
C2_CapExceededAtomic ==
    last.err = "cap" =>
        /\ data = last.data0
        /\ Index(impl, ft) = Index(impl, last.ft0)

\* C3: FTInitWithMap fails whenever an incoming key is already a key of the
\* Store; after the failure the Store holds the records it held, and a cache
\* that was uninitialised is still uninitialised: the guard of the FT-init
\* variants does not reject the next call.
C3_KeyCollisionRejected ==
    (last.op = "FTInitWithMap" /\ DOMAIN last.arg \cap DOMAIN last.data0 # {}) =>
        /\ last.err # "none"
        /\ data = last.data0
        /\ ~Initialised(impl, last.ft0) =>
              ~Initialised(impl, ft) /\ ~GuardRejects(impl, Cache)

C3_Witness ==
    /\ last.op = "FTInitWithMap"
    /\ last.err = "collision"
    /\ DOMAIN last.arg \cap DOMAIN last.data0 # {}
    /\ ~Initialised(impl, ft)

\* What FTInit with both caps disabled would do next, past the guard.
RetryFTInit(order) ==
    IF impl = "hermes"
    THEN ftInit(Cache, -1, -1, 1, order)
    ELSE initFT(Cache, -1, -1, {"name"}, order)

\* C4: when an FT-init variant fails while loading the data into the index,
\* the FT ends uninitialised, nothing of the partly built index is retained,
\* the guard of the FT-init variants lets the next call through, and an
\* FTInit with the caps disabled then succeeds.
C4_FailedLoadReverts ==
    (last.op \in InitOps /\ last.err = "cap") =>
        /\ ~Initialised(impl, ft)
        /\ Retained(impl, ft) = EmptyMap
        /\ ~GuardRejects(impl, Cache)
        /\ \A order \in Orders(data) :
              LET r == RetryFTInit(order)
              IN r.err = "none" /\ Initialised(impl, r.ft)

C4_Witness ==
    /\ last.op \in InitOps
    /\ last.err = "cap"
    /\ DOMAIN data # {}
    /\ ~Initialised(impl, ft)

\* C5: the FT lifecycle is one-way: no step of any public operation leads
\* from an initialised FT to an uninitialised one.
C5_OneWay == [][Initialised(impl, ft) => Initialised(impl, ft')]_cvars

C5_Witness ==
    /\ Initialised(impl, ft)
    /\ Initialised(impl, last.ft0)
    /\ last.op = "FTInit"
    /\ last.err # "none"

\* A record as the Store returns it after an ingestion: the fields of the
\* original, each with its value or with the full-text string of its value.
SameRecord(got, orig) ==
    /\ DOMAIN got = DOMAIN orig
    /\ \A k \in DOMAIN orig :
          \/ got[k] = orig[k]
          \/ Len(WFTGetValue(orig[k])) > 0 /\ got[k] = StrVal(WFTGetValue(orig[k]))

Writing(p) == pc[p] \in {"write", "readjson", "load"}
Reading(p) == pc[p] \in {"read", "inner_rlock", "inner_read"}

\* C7: a mutation is exclusive: while a mutation is inside its critical
\* section no other mutation and no search is inside its own; searches are
\* admitted together: a search that asks for the lock while no writer has
\* announced itself gets it, whatever the number of readers inside.
C7_MutationsExclusive ==
    /\ \A p, q \in Procs :
          (p # q /\ Writing(p)) => (~Writing(q) /\ ~Reading(q))
    /\ \A p \in Procs : (pc[p] = "rlock" /\ wHolder = 0) => CanRLock(p)
    /\ \A p \in Procs : Reading(p) <=> holds[p] > 0

C7_Witness ==
    \E p, q, r \in Procs :
        /\ Writing(p)
        /\ pc[q] = "rlock"
        /\ pc[r] = "lock"

(***************************************************************************)
(* Properties of the search engine.                                        *)
(***************************************************************************)
Min(a, b) == IF a < b THEN a ELSE b

Posting(f, q) == IF q \in DOMAIN f.cache THEN f.cache[q] ELSE <<>>

RecordsAt(f, idxs) == [i \in 1..Len(idxs) |-> f.json[idxs[i] + 1]]

\* The records (their indices) with a word that contains the query.
Matching(f, q) ==
    {i \in 0..(Len(f.json) - 1) :
        \E w \in DOMAIN f.cache : _Contains(w, q) /\ InSeq(f.cache[w], i)}

\* C8: a strict search returns the records of the posting of its query, in
\* posting order, truncated to limit when limit > 0; none when the query is
\* no word of the index.
C8_StrictSearchTruncated ==
    (res.op = "Search" /\ res.strict) =>
        LET posting == Posting(fts, res.query)
            n == IF res.limit > 0 THEN Min(res.limit, Len(posting)) ELSE Len(posting)
        IN res.result = RecordsAt(fts, SubSeq(posting, 1, n))

\* C9: a non-strict search with limit <= 0 is unbounded: it returns every
\* record that has a word containing the query.
C9_NonPositiveLimitUnbounded ==
    (res.op = "Search" /\ ~res.strict /\ res.limit <= 0 /\ res.query # <<>>) =>
        \A i \in Matching(fts, res.query) : InSeq(res.result, fts.json[i + 1])

\* C10: a non-strict search with limit > 0 never returns more than limit
\* records.
C10_NonStrictWithinLimit ==
    (res.op = "Search" /\ ~res.strict /\ res.limit > 0) =>
        Len(res.result) <= res.limit

\* Whether no record is stored twice: a value returned twice is then one
\* record returned twice.
DistinctRecords(f) == \A i, j \in 1..Len(f.json) : f.json[i] = f.json[j] => i = j

NoDuplicates(result) == \A i, j \in 1..Len(result) : result[i] = result[j] => i = j

\* C11: no search returns a record twice: not the non-strict search of one
\* word, not the search of several words, not the searches of the values.
C11_NoRecordTwice ==
    (res.op # "none" /\ DistinctRecords(fts)) => NoDuplicates(res.result)

\* The words of a query of several words.
QueryWords(query) == Split(TrimSpace(query), <<>>)

\* C12: a non-strict search of several words returns a record exactly when
\* every word of the query is contained in an indexed word of the record
\* (here as sets of records, for a query without spaces around it, limit
\* and keys leaving every record in reach).
C12_MultiWordConjunction ==
    (/\ res.op = "SearchWithSpaces"
     /\ ~res.strict
     /\ Len(QueryWords(res.query)) > 1
     /\ res.query = TrimSpace(res.query)
     /\ res.keys = JsonFields
     /\ res.limit >= Len(fts.json)
     /\ DistinctRecords(fts)) =>
        \A i \in 0..(Len(fts.json) - 1) :
            InSeq(res.result, fts.json[i + 1]) <=>
                \A n \in 1..Len(QueryWords(res.query)) :
                    i \in Matching(fts, QueryWords(res.query)[n])

(***************************************************************************)
(* Properties of the store and the index.                                  *)
(***************************************************************************)
\* The record a successful initialisation was given under a key: from the
\* Store or from the map of the call.
Given(key) == IF key \in DOMAIN last.arg THEN last.arg[key] ELSE last.data0[key]

C14_SetGetRoundTrip ==
    /\ (last.op = "Set" /\ last.err = "none") =>
          /\ last.call.key \in DOMAIN data
          /\ data[last.call.key] = last.arg[last.call.key]
    /\ \A k \in DOMAIN last.data0 :
          (last.op \in {"Set", "Delete"} /\ last.call.key = k)
          \/ (k \in DOMAIN data /\ data[k] = last.data0[k])

\* Whether both caps of a full text are disabled.
Uncapped(i, f) == MaxWordsOf(i, f) = -1 /\ MaxBytesOf(i, f) = -1

\* C15: in every reachable state the index has at most maxWords distinct
\* tokens when maxWords >= 0 and costs at most maxBytes bytes when
\* maxBytes >= 0, and no operation whose caps are both -1 fails with the
\* cap error.
C15_CapsHold ==
    /\ ft # Nil =>
          /\ MaxWordsOf(impl, ft) >= 0 =>
                Cardinality(DOMAIN Retained(impl, ft)) <= MaxWordsOf(impl, ft)
          /\ MaxBytesOf(impl, ft) >= 0 =>
                Bytes(Retained(impl, ft)) <= MaxBytesOf(impl, ft)
    /\ last.err = "cap" =>
          IF last.op \in InitOps THEN ~last.call.uncapped
          ELSE Initialised(impl, last.ft0) /\ ~Uncapped(impl, last.ft0)

C15_Witness ==
    /\ Initialised(impl, ft)
    /\ MaxWordsOf(impl, ft) = MaxWordsBound
    /\ Cardinality(DOMAIN Index(impl, ft)) = MaxWordsBound
    /\ last.op = "Set"
    /\ last.err = "cap"

C15_WitnessUncapped ==
    /\ Initialised(impl, ft)
    /\ Uncapped(impl, ft)
    /\ Cardinality(DOMAIN Index(impl, ft)) > MaxWordsBound
    /\ last.op = "Set"
    /\ last.err = "none"

\* C16: Delete is idempotent: after Delete(k) a second Delete(k) changes
\* neither the Store nor the index, and Delete of a key that is not stored
\* changes nothing.
C16_DeleteIdempotent ==
    last.op = "Delete" =>
        /\ last.err = "none"
        /\ last.call.key \notin DOMAIN last.data0 => (data = last.data0 /\ ft = last.ft0)
        /\ LET again == delete(impl, Cache, last.call.key)
           IN again.err = "none" /\ again.data = data /\ again.ft = ft

C16_Witness ==
    /\ last.op = "Delete"
    /\ last.call.key \in DOMAIN last.data0
    /\ Cardinality({t \in DOMAIN Index(impl, last.ft0) :
                      InSeq(Index(impl, last.ft0)[t], last.call.key)}) > 1
    /\ DOMAIN data # {}
    /\ Index(impl, ft) # EmptyMap

C16_WitnessAbsent ==
    /\ last.op = "Delete"
    /\ last.call.key \notin DOMAIN last.data0
    /\ DOMAIN data # {}
    /\ Index(impl, ft) # EmptyMap

\* C17: when the snapshot file cannot be read or parsed, FTInitWithJson on
\* an uninitialised FT returns the error of the read, the Store is as it
\* was and the FT stays uninitialised.
C17_UnreadableSnapshot ==
    (/\ last.op = "FTInitWithJson"
     /\ ReadJson(last.call.file).err # "none"
     /\ ~Initialised(impl, last.ft0)) =>
        /\ last.err = ReadJson(last.call.file).err
        /\ data = last.data0
        /\ ft = last.ft0
        /\ ~Initialised(impl, ft)

C17_Witness ==
    /\ last.op = "FTInitWithJson"
    /\ last.call.file = "bad.json"
    /\ last.err = "io"
    /\ DOMAIN data # {}
    /\ ~Initialised(impl, ft)

(***************************************************************************)
(* Properties of the calls made under the lock.                            *)
(***************************************************************************)
\* C18: no public operation calls a public operation: no caller acquires
\* the lock of the cache while it already holds it.
C18_NoLockTakenTwice ==
    \A p \in Procs :
        /\ holds[p] <= 1
        /\ ~(holds[p] > 0 /\ pc[p] = "inner_rlock")

\* C19: no reader waits behind a pending writer that waits for that same
\* reader: from such a state neither of the two ever returns.
C19_NoReaderBehindItsWriter ==
    \A p, q \in Procs :
        ~(/\ pc[p] = "inner_rlock"
          /\ holds[p] > 0
          /\ pc[q] = "lock_wait"
          /\ wHolder = q)

\* C20: a public operation that has returned, with its result or by any of
\* its errors, has released the lock it took: an idle caller holds neither
\* the read lock nor the write lock, and a search that called Search holds
\* after its return the one read lock it held before.
C20_LockReleasedOnReturn ==
    \A p \in Procs :
        /\ pc[p] = "idle" => (holds[p] = 0 /\ wHolder # p)
        /\ pc[p] = "read" => holds[p] = 1

C20_Witness ==
    /\ ret.op = "FTInitWithJson"
    /\ ret.err = "io"
    /\ pc[ret.p] = "idle"
    /\ \E q \in Procs : q # ret.p /\ pc[q] = "lock" /\ CanLockBegin(q)
    /\ \E q \in Procs : q # ret.p /\ pc[q] = "rlock" /\ CanRLock(q)

\* C21: of the FT-init calls that run concurrently on an uninitialised
\* cache one succeeds and the others return the already-initialised error:
\* a call returns that error exactly when the FT is initialised at its
\* return, so no call succeeds on an FT another call has installed, and a
\* call that succeeds leaves the FT initialised.
C21_OneInitSucceeds ==
    ret.op \in InitOps =>
        /\ ret.was <=> ret.err = "already"
        /\ ret.err = "none" => Initialised(impl, ft)
        /\ ret.err = "already" => Initialised(impl, ft)

\* Two callers are past their Lock call while a third returns with success.
C21_Witness ==
    /\ ret.op \in InitOps
    /\ ret.err = "none"
    /\ \E q, r \in Procs :
          /\ q # r
          /\ pc[q] \in {"lock", "lock_wait"}
          /\ pc[r] \in {"lock", "lock_wait"}
          /\ op[q] \in InitOps
          /\ op[r] \in InitOps

C21_WitnessRejected ==
    /\ ret.op \in InitOps
    /\ ret.err = "already"
    /\ ret.was

\* C24: the snapshot file is read before the exclusive lock is taken: no
\* caller is reading the file while it holds the lock.
C24_FileReadBeforeLock ==
    \A p \in Procs : pc[p] = "readjson" => wHolder # p

(***************************************************************************)
(* Properties of the index against the store.                              *)
(***************************************************************************)
\* The tokens of the indexed fields of a stored record: in package hermes
\* every field with a full-text value, words of minWordLength or more; in
\* package cache the fields of the schema.
TokensOf(rec) ==
    {t \in UNION {{Tokenise(WFTGetValue(rec[k]), 1)[n] :
                      n \in 1..Len(Tokenise(WFTGetValue(rec[k]), 1))} : k \in DOMAIN rec} :
        \E k \in DOMAIN rec :
            IF impl = "hermes"
            THEN InSeq(Tokenise(WFTGetValue(rec[k]), ft.minWordLength), t)
            ELSE k \in ft.schema /\ InSeq(Tokenise(WFTGetValue(rec[k]), 1), t)}

\* The live records with token t.
KeysWith(t) == {key \in DOMAIN data : t \in TokensOf(data[key])}

KeysOf(posting) == {posting[n] : n \in 1..Len(posting)}

\* C22: with the FT initialised the Index and the Store agree after every
\* operation: the tokens of the Index are the tokens of the indexed fields
\* of the live records, and the posting of a token holds exactly the keys
\* of the live records with that token, those stored before the FT was
\* initialised among them.
C22_IndexAgreesWithStore ==
    Initialised(impl, ft) =>
        /\ DOMAIN Index(impl, ft) = UNION {TokensOf(data[key]) : key \in DOMAIN data}
        /\ \A t \in DOMAIN Index(impl, ft) : KeysOf(Index(impl, ft)[t]) = KeysWith(t)

\* A record set before the FT was initialised and one set after it share a
\* token.
C22_Witness ==
    /\ Initialised(impl, ft)
    /\ last.op = "Set"
    /\ last.err = "none"
    /\ Initialised(impl, last.ft0)
    /\ \E t \in DOMAIN Index(impl, ft) : Len(Index(impl, ft)[t]) = 2
    /\ \E key \in DOMAIN data :
          /\ key # last.call.key
          /\ TokensOf(data[key]) # {}

\* C23: every posting has a legal shape: a Single posting has exactly one
\* key, a Multi posting at least two and none twice; after a bulk load a
\* token that exactly one record contributes is stored as Single.  The word
\* cache of package cache has no shapes: there a posting is not empty and
\* has no key twice.
C23_PostingShapes ==
    /\ (impl = "hermes" /\ ft # Nil) =>
          \A t \in DOMAIN ft.storage :
             /\ ft.storage[t].shape \in {"Single", "Multi"}
             /\ ft.storage[t].shape = "Single" => Len(ft.storage[t].keys) = 1
             /\ ft.storage[t].shape = "Multi" => Len(ft.storage[t].keys) >= 2
             /\ NoDuplicates(ft.storage[t].keys)
    /\ (impl = "hermes" /\ last.op \in InitOps /\ last.err = "none") =>
          \A t \in DOMAIN ft.storage :
             Cardinality(KeysWith(t)) = 1 => ft.storage[t].shape = "Single"
    /\ (impl = "cache" /\ ft # Nil) =>
          \A t \in DOMAIN ft.wordCache :
             ft.wordCache[t] # <<>> /\ NoDuplicates(ft.wordCache[t])

\* A bulk load over two records left a Single and a Multi posting.
C23_Witness ==
    /\ impl = "hermes"
    /\ last.op \in InitOps
    /\ last.err = "none"
    /\ Cardinality(DOMAIN data) = 2
    /\ \E t, u \in DOMAIN ft.storage :
          /\ ft.storage[t].shape = "Single"
          /\ ft.storage[u].shape = "Multi"

====
